---- MODULE Spec2Model ----
(***************************************************************************)
(* Registration-tracking adapter (IoSource) with its debug association     *)
(* state (SelectorId), and the cross-thread Waker, of mio.                 *)
(*                                                                         *)
(* Spec      : one adapter used against several registries                 *)
(*             (register / reregister / deregister / do_io).               *)
(* WakerSpec : one waker, wake() calls and the polling waits of the        *)
(*             registries; WakerLive adds the fairness of the waits.       *)
(***************************************************************************)
EXTENDS Integers, FiniteSets, Sequences, TLC

\* ------------------------------------------------------------------ bounds
NumRegistries == 2      \* registries (selectors) in the model
MaxToken == 1           \* tokens are 0..MaxToken
MaxWakes == 2           \* wake() calls not yet observed by a wait

\* --------------------------------------------------------------- constants
UNASSOCIATED == 0       \* SelectorId::UNASSOCIATED; valid selector ids start at 1

Registries == 1..NumRegistries
Tokens == 0..MaxToken
READABLE == "READABLE"
WRITABLE == "WRITABLE"
\* Interest: a non-empty set over {readable, writable}
Interests == {{READABLE}, {WRITABLE}, {READABLE, WRITABLE}}

Adapters == {"a1", "a2"}
WakerFd == 9
\* as_raw_fd(): every adapter owns its own raw handle
RawFd(a) == IF a = "a1" THEN 3 ELSE 4
Fds == {RawFd(a) : a \in Adapters} \cup {WakerFd}

NoReg == [token |-> -1, interests |-> {}]
Registration(tok, int) == [token |-> tok, interests |-> int]

\* io::Result kinds.  The selector's own errors may carry any kind
\* (epoll reports EEXIST as AlreadyExists and ENOENT as NotFound).
Ok == "Ok"
AlreadyExists == "AlreadyExists"
NotFound == "NotFound"
Other == "Other"
WouldBlock == "WouldBlock"
SelectorOutcomes == {Ok, AlreadyExists, NotFound, Other}
OpOutcomes == {Ok, WouldBlock, Other}
None == "none"
SourceOps == {"register", "reregister", "deregister"}

VARIABLES
    debug_assertions,   \* cfg(debug_assertions): the safety checks are compiled in
    live,               \* the adapters that exist (IoSource::new, not yet into_inner)
    id,                 \* id[a]: SelectorId.id of adapter a
    sel,                \* sel[r][fd]: what registry r's selector holds for fd
    last,               \* the last call made on an adapter, and what it did
    cycle,              \* cycle[a]: position in a register -> deregister sequence
    waker,              \* the live Waker value: NoWaker or [registry, token]
    has_waker,          \* has_waker[r]: a waker was registered on registry r
    pending,            \* the wake signal's count of writes no wait has drained
    polling,            \* polling[r]: a thread is blocked in r's polling wait
    events,             \* events[r]: the events the last wait on r returned
    wlast,              \* the last call made on a waker (see WakerCall)
    wakes,              \* wake() calls that succeeded and no wait has reported
    observed,           \* observed[r]: the wake() calls reported by the latest return
                        \* of a wait, when that was a wait on r
    data,               \* the adapters whose handle has data that was not read
    disarmed,           \* the <<r, fd>> whose readiness r's selector has reported
                        \* and will not report again before it is re-armed
    pc                  \* pc[a]: the call the thread using adapter a is in, or
                        \* completed last, when calls are taken step by step

vars == <<debug_assertions, live, id, sel, last, cycle,
          waker, has_waker, pending, polling, events, wlast, wakes, observed,
          data, disarmed, pc>>
wakerVars == <<waker, has_waker, pending, polling, events, wlast, wakes, observed>>
ioVars == <<data, disarmed>>

NoCall == [op |-> None, a |-> None, r |-> 0, pre |-> 0, chk |-> None,
           fwd |-> None, res |-> None, applied |-> 0, fres |-> None,
           after |-> FALSE]

\* pc[a] when the thread using adapter a has made no call
NoThread == [phase |-> "idle", op |-> None, r |-> 0, pre |-> 0, chk |-> None,
             fwd |-> None, res |-> None]

\* ------------------------------------------------------ SelectorId (debug)
\* Each operation is one atomic access to `id`; the result is the new value
\* of `id` and the io::Result.

\* SelectorId::new
SelectorIdNew == UNASSOCIATED

\* associate: id.swap(registry_id), Ok iff the previous value was UNASSOCIATED
associate(previous_id, registry_id) ==
    [id |-> registry_id,
     res |-> IF previous_id = UNASSOCIATED THEN Ok ELSE AlreadyExists]

\* check_association, were it to write the id the way associate does
check_association_swap(cur_id, registry_id) ==
    [id |-> registry_id,
     res |-> IF cur_id = registry_id THEN Ok
             ELSE IF cur_id = UNASSOCIATED THEN NotFound
             ELSE AlreadyExists]

\* check_association: id.load()
check_association(cur_id, registry_id) ==
    [id |-> cur_id,
     res |-> IF cur_id = registry_id THEN Ok
             ELSE IF cur_id = UNASSOCIATED THEN NotFound
             ELSE AlreadyExists]

\* remove_association, were it to compare without clearing the id
remove_association_keep(previous_id, registry_id) ==
    [id |-> previous_id,
     res |-> IF previous_id = registry_id THEN Ok ELSE NotFound]

\* remove_association: id.swap(UNASSOCIATED), Ok iff the previous value was
\* registry_id
remove_association(previous_id, registry_id) ==
    [id |-> UNASSOCIATED,
     res |-> IF previous_id = registry_id THEN Ok ELSE NotFound]

\* ------------------------------------------------- the registry's selector
\* The selector is an external collaborator: a call either fails, changing
\* nothing, or succeeds with the effect below.  It may fail for a reason of
\* its own (Other); it reports AlreadyExists only for a handle it holds and
\* NotFound only for one it does not hold (epoll), and may also accept such
\* calls (kqueue).
Holds(s, r, fd) == s[r][fd] # NoReg
RegisterReplies(s, r, fd) ==
    {Ok, Other} \cup (IF Holds(s, r, fd) THEN {AlreadyExists} ELSE {})
ModifyReplies(s, r, fd) ==
    {Ok, Other} \cup (IF Holds(s, r, fd) THEN {} ELSE {NotFound})
SelectorRegister(s, r, fd, tok, int) ==
    [s EXCEPT ![r][fd] = Registration(tok, int)]
SelectorReregister(s, r, fd, tok, int) ==
    [s EXCEPT ![r][fd] = Registration(tok, int)]
SelectorDeregister(s, r, fd) ==
    [s EXCEPT ![r][fd] = NoReg]

\* A registration that the selector accepted or changed is armed: its
\* readiness will be reported.
SelectorArm(d, r, fd, out) == IF out = Ok THEN d \ {<<r, fd>>} ELSE d

\* Re-arming a handle after a WouldBlock, in every selector that holds it.
SelectorRearm(d, fd) == {p \in d : p[2] # fd}

\* ----------------------------------------------------- register cycles
\* History only: cycle[a] follows the calls on a through the sequence
\* (successful register(R), deregister(R))*.
\* r = 0: no repetition yet.
NoCycle == [phase |-> "idle", r |-> 0]
CycleOff == [phase |-> "off", r |-> 0]
CycleStep(c, op, r, res) ==
    IF c.phase = "idle" /\ op = "register" /\ res = Ok /\ c.r \in {0, r}
        THEN [phase |-> "registered", r |-> r]
    ELSE IF c.phase = "registered" /\ op = "deregister" /\ c.r = r
        THEN [phase |-> "idle", r |-> r]
    ELSE CycleOff
\* The call on registry r comes right after one or more whole repetitions on r.
AfterCycles(c, r) == c.phase = "idle" /\ c.r = r

\* ------------------------------------------------------------ event::Source
\* The association step of a call: skipped without debug_assertions.
Checked(step, cur_id) ==
    IF debug_assertions THEN step ELSE [id |-> cur_id, res |-> Ok]

Call(op, a, r, pre, chk, fwd, res) ==
    [op |-> op, a |-> a, r |-> r, pre |-> pre,
     chk |-> IF debug_assertions THEN chk ELSE None,
     fwd |-> fwd, res |-> res, applied |-> 0, fres |-> None,
     after |-> AfterCycles(cycle[a], r)]

\* register, were it to forward to the selector before looking at the result
\* of associate
RegisterForwardFirst(a, r, out) ==
    LET c == Checked(associate(id[a], r), id[a]) IN
    /\ a \in live
    /\ id' = [id EXCEPT ![a] = c.id]
    /\ out \in RegisterReplies(sel, r, RawFd(a))
    /\ IF out = Ok
          THEN \E tok \in Tokens, int \in Interests :
                  sel' = SelectorRegister(sel, r, RawFd(a), tok, int)
          ELSE sel' = sel
    /\ last' = Call("register", a, r, id[a], c.res, out,
                    IF c.res # Ok THEN c.res ELSE out)
    /\ cycle' = [cycle EXCEPT ![a] =
                    CycleStep(@, "register", r, IF c.res # Ok THEN c.res ELSE out)]
    /\ UNCHANGED <<debug_assertions, live>>
    /\ UNCHANGED wakerVars
    /\ disarmed' = SelectorArm(disarmed, r, RawFd(a), last'.fwd)
    /\ UNCHANGED <<data, pc>>

\* IoSource::register: associate(registry)?; state.register(registry, token,
\* interests, inner.as_raw_fd()).  `out` is the selector's reply when the call
\* is forwarded; token and interests are drawn where the selector stores them.
Register(a, r, out) ==
    LET c == Checked(associate(id[a], r), id[a]) IN
    /\ a \in live
    /\ id' = [id EXCEPT ![a] = c.id]
    /\ IF c.res # Ok
          THEN /\ sel' = sel
               /\ last' = Call("register", a, r, id[a], c.res, None, c.res)
               /\ cycle' = [cycle EXCEPT ![a] = CycleStep(@, "register", r, c.res)]
          ELSE /\ out \in RegisterReplies(sel, r, RawFd(a))
               /\ IF out = Ok
                     THEN \E tok \in Tokens, int \in Interests :
                             sel' = SelectorRegister(sel, r, RawFd(a), tok, int)
                     ELSE sel' = sel
               /\ last' = Call("register", a, r, id[a], c.res, out, out)
               /\ cycle' = [cycle EXCEPT ![a] = CycleStep(@, "register", r, out)]
    /\ UNCHANGED <<debug_assertions, live>>
    /\ UNCHANGED wakerVars
    /\ disarmed' = SelectorArm(disarmed, r, RawFd(a), last'.fwd)
    /\ UNCHANGED <<data, pc>>

\* IoSource::reregister: check_association(registry)?; state.reregister(..)
Reregister(a, r, out) ==
    LET c == Checked(check_association(id[a], r), id[a]) IN
    /\ a \in live
    /\ id' = [id EXCEPT ![a] = c.id]
    /\ IF c.res # Ok
          THEN /\ sel' = sel
               /\ last' = Call("reregister", a, r, id[a], c.res, None, c.res)
               /\ cycle' = [cycle EXCEPT ![a] = CycleStep(@, "reregister", r, c.res)]
          ELSE /\ out \in ModifyReplies(sel, r, RawFd(a))
               /\ IF out = Ok
                     THEN \E tok \in Tokens, int \in Interests :
                             sel' = SelectorReregister(sel, r, RawFd(a), tok, int)
                     ELSE sel' = sel
               /\ last' = Call("reregister", a, r, id[a], c.res, out, out)
               /\ cycle' = [cycle EXCEPT ![a] = CycleStep(@, "reregister", r, out)]
    /\ UNCHANGED <<debug_assertions, live>>
    /\ UNCHANGED wakerVars
    /\ disarmed' = SelectorArm(disarmed, r, RawFd(a), last'.fwd)
    /\ UNCHANGED <<data, pc>>

\* deregister, were the checked build to clear the association and return
\* without forwarding
DeregisterNoForward(a, r, out) ==
    LET c == Checked(remove_association(id[a], r), id[a]) IN
    /\ a \in live
    /\ id' = [id EXCEPT ![a] = c.id]
    /\ IF debug_assertions
          THEN /\ sel' = sel
               /\ last' = Call("deregister", a, r, id[a], c.res, None, c.res)
               /\ cycle' = [cycle EXCEPT ![a] = CycleStep(@, "deregister", r, c.res)]
          ELSE /\ out \in ModifyReplies(sel, r, RawFd(a))
               /\ sel' = IF out = Ok
                            THEN SelectorDeregister(sel, r, RawFd(a))
                            ELSE sel
               /\ last' = Call("deregister", a, r, id[a], c.res, out, out)
               /\ cycle' = [cycle EXCEPT ![a] = CycleStep(@, "deregister", r, out)]
    /\ UNCHANGED <<debug_assertions, live>>
    /\ UNCHANGED wakerVars
    /\ disarmed' = SelectorArm(disarmed, r, RawFd(a), last'.fwd)
    /\ UNCHANGED <<data, pc>>

\* IoSource::deregister: remove_association(registry)?; state.deregister(..)
Deregister(a, r, out) ==
    LET c == Checked(remove_association(id[a], r), id[a]) IN
    /\ a \in live
    /\ id' = [id EXCEPT ![a] = c.id]
    /\ IF c.res # Ok
          THEN /\ sel' = sel
               /\ last' = Call("deregister", a, r, id[a], c.res, None, c.res)
               /\ cycle' = [cycle EXCEPT ![a] = CycleStep(@, "deregister", r, c.res)]
          ELSE /\ out \in ModifyReplies(sel, r, RawFd(a))
               /\ sel' = IF out = Ok
                            THEN SelectorDeregister(sel, r, RawFd(a))
                            ELSE sel
               /\ last' = Call("deregister", a, r, id[a], c.res, out, out)
               /\ cycle' = [cycle EXCEPT ![a] = CycleStep(@, "deregister", r, out)]
    /\ UNCHANGED <<debug_assertions, live>>
    /\ UNCHANGED wakerVars
    /\ disarmed' = SelectorArm(disarmed, r, RawFd(a), last'.fwd)
    /\ UNCHANGED <<data, pc>>

\* ------------------------------------------------------------------- do_io
\* IoSourceState::do_io: applies f to the handle and returns its result; a
\* WouldBlock result triggers the re-arm bookkeeping.
IoSourceStateDoIo(fres) ==
    [applied |-> 1, res |-> fres, rearm |-> fres = WouldBlock]

\* What f leaves of the handle's unread data: a successful read takes it.
HandleAfter(d, a, fres) == IF fres = Ok THEN d \ {a} ELSE d

\* What a read of adapter a's handle can return: WouldBlock exactly when
\* there is nothing to read.
ReadOutcomes(a) == IF a \in data THEN {Ok, Other} ELSE {WouldBlock, Other}

\* do_io, were it to apply f to the handle itself, without the state's
\* bookkeeping
DoIoDirect(a, fres) ==
    /\ a \in live
    /\ last' = [op |-> "do_io", a |-> a, r |-> 0, pre |-> id[a], chk |-> None,
                fwd |-> None, res |-> fres, applied |-> 1,
                fres |-> fres, after |-> FALSE]
    /\ data' = HandleAfter(data, a, fres)
    /\ UNCHANGED <<debug_assertions, live, id, sel, cycle>>
    /\ UNCHANGED wakerVars
    /\ UNCHANGED <<disarmed, pc>>

\* do_io, were it to apply f again after a WouldBlock and report success
DoIoRetry(a, fres) ==
    LET d == IoSourceStateDoIo(fres) IN
    /\ a \in live
    /\ last' = [op |-> "do_io", a |-> a, r |-> 0, pre |-> id[a], chk |-> None,
                fwd |-> None,
                res |-> IF d.res = WouldBlock THEN Ok ELSE d.res,
                applied |-> IF d.res = WouldBlock THEN d.applied + 1 ELSE d.applied,
                fres |-> fres, after |-> FALSE]
    /\ data' = HandleAfter(data, a, fres)
    /\ disarmed' = IF d.rearm THEN SelectorRearm(disarmed, RawFd(a)) ELSE disarmed
    /\ UNCHANGED <<debug_assertions, live, id, sel, cycle>>
    /\ UNCHANGED wakerVars
    /\ UNCHANGED pc

\* IoSource::do_io: self.state.do_io(f, &self.inner); f returns fres
DoIo(a, fres) ==
    LET d == IoSourceStateDoIo(fres) IN
    /\ a \in live
    /\ last' = [op |-> "do_io", a |-> a, r |-> 0, pre |-> id[a], chk |-> None,
                fwd |-> None, res |-> d.res, applied |-> d.applied,
                fres |-> fres, after |-> FALSE]
    /\ data' = HandleAfter(data, a, fres)
    /\ disarmed' = IF d.rearm THEN SelectorRearm(disarmed, RawFd(a)) ELSE disarmed
    /\ UNCHANGED <<debug_assertions, live, id, sel, cycle>>
    /\ UNCHANGED wakerVars
    /\ UNCHANGED pc

\* The peer writes: data arrives on adapter a's handle.  The record notes
\* whether the call before was a do_io on a that returned WouldBlock (after);
\* its res becomes Ok when a wait reports the arrival.
DataArrives(a) ==
    /\ a \in live
    /\ a \notin data
    /\ data' = data \cup {a}
    /\ last' = [NoCall EXCEPT !.op = "arrive", !.a = a, !.pre = id[a],
                              !.after = (/\ last.op = "do_io" /\ last.a = a
                                         /\ last.res = WouldBlock)]
    /\ UNCHANGED <<debug_assertions, live, id, sel, cycle>>
    /\ UNCHANGED wakerVars
    /\ UNCHANGED <<disarmed, pc>>

\* -------------------------------------------------------- into_inner, drop
\* into_inner, were it to deregister the handle on the way out
IntoInnerDeregisters(a) ==
    /\ a \in live
    /\ live' = live \ {a}
    /\ sel' = [r \in Registries |-> [sel[r] EXCEPT ![RawFd(a)] = NoReg]]
    /\ last' = [NoCall EXCEPT !.op = "into_inner", !.a = a, !.pre = id[a]]
    /\ UNCHANGED <<debug_assertions, id, cycle>>
    /\ UNCHANGED wakerVars
    /\ UNCHANGED <<data, disarmed, pc>>

\* IoSource::into_inner: returns self.inner; the state and the association
\* are dropped, nothing is forwarded to a registry.
IntoInner(a) ==
    /\ a \in live
    /\ live' = live \ {a}
    /\ last' = [NoCall EXCEPT !.op = "into_inner", !.a = a, !.pre = id[a]]
    /\ UNCHANGED <<debug_assertions, id, sel, cycle>>
    /\ UNCHANGED wakerVars
    /\ UNCHANGED <<data, disarmed, pc>>

\* drop(IoSource): the struct has no Drop implementation; its fields are
\* dropped and nothing is forwarded to a registry.
IoSourceDrop(a) ==
    /\ a \in live
    /\ live' = live \ {a}
    /\ last' = [NoCall EXCEPT !.op = "drop", !.a = a, !.pre = id[a]]
    /\ UNCHANGED <<debug_assertions, id, sel, cycle>>
    /\ UNCHANGED wakerVars
    /\ UNCHANGED <<data, disarmed, pc>>

\* ------------------------------------------------- calls taken step by step
\* With one thread per adapter, a call is two atomic steps: the access to the
\* adapter's SelectorId (one atomic swap or load), then the forwarded call on
\* the registry's selector (one system call).

\* IoSource::new(io): a new adapter, unassociated.
IoSourceNew(a) ==
    /\ a \notin live
    /\ live' = live \cup {a}
    /\ id' = [id EXCEPT ![a] = SelectorIdNew]
    /\ UNCHANGED <<debug_assertions, sel, last, cycle>>
    /\ UNCHANGED wakerVars
    /\ UNCHANGED <<data, disarmed, pc>>

\* the SelectorId operation that a call starts with
IdStep(op, cur_id, r) ==
    CASE op = "register" -> associate(cur_id, r)
      [] op = "reregister" -> check_association(cur_id, r)
      [] op = "deregister" -> remove_association(cur_id, r)

\* the selector operation that a call forwards to
SelectorReplies(op, s, r, fd) ==
    IF op = "register" THEN RegisterReplies(s, r, fd) ELSE ModifyReplies(s, r, fd)
SelectorCall(op, s, r, fd, out, tok, int) ==
    IF out # Ok THEN s
    ELSE CASE op = "register" -> SelectorRegister(s, r, fd, tok, int)
           [] op = "reregister" -> SelectorReregister(s, r, fd, tok, int)
           [] op = "deregister" -> SelectorDeregister(s, r, fd)

\* the first step, were one SelectorId shared by all the adapters
ConcBeginShared(a, op, r) ==
    LET c == Checked(IdStep(op, id[a], r), id[a]) IN
    /\ a \in live
    /\ pc[a].phase = "idle"
    /\ id' = [b \in Adapters |-> c.id]
    /\ pc' = [pc EXCEPT ![a] =
                 [phase |-> IF c.res # Ok THEN "idle" ELSE "forward",
                  op |-> op, r |-> r, pre |-> id[a],
                  chk |-> IF debug_assertions THEN c.res ELSE None,
                  fwd |-> None,
                  res |-> IF c.res # Ok THEN c.res ELSE None]]
    /\ UNCHANGED <<debug_assertions, live, sel, last, cycle>>
    /\ UNCHANGED wakerVars
    /\ UNCHANGED <<data, disarmed>>

\* The first step of register/reregister/deregister on adapter a: the
\* SelectorId operation; a failed check returns at once.
ConcBegin(a, op, r) ==
    LET c == Checked(IdStep(op, id[a], r), id[a]) IN
    /\ a \in live
    /\ pc[a].phase = "idle"
    /\ id' = [id EXCEPT ![a] = c.id]
    /\ pc' = [pc EXCEPT ![a] =
                 [phase |-> IF c.res # Ok THEN "idle" ELSE "forward",
                  op |-> op, r |-> r, pre |-> id[a],
                  chk |-> IF debug_assertions THEN c.res ELSE None,
                  fwd |-> None,
                  res |-> IF c.res # Ok THEN c.res ELSE None]]
    /\ UNCHANGED <<debug_assertions, live, sel, last, cycle>>
    /\ UNCHANGED wakerVars
    /\ UNCHANGED <<data, disarmed>>

\* The second step: self.state.<op>(registry, ..) on the registry's
\* selector; its reply `out` is the result of the call.
ConcForward(a, out, tok, int) ==
    LET op == pc[a].op
        r == pc[a].r IN
    /\ a \in live
    /\ pc[a].phase = "forward"
    /\ out \in SelectorReplies(op, sel, r, RawFd(a))
    /\ sel' = SelectorCall(op, sel, r, RawFd(a), out, tok, int)
    /\ disarmed' = SelectorArm(disarmed, r, RawFd(a), out)
    /\ pc' = [pc EXCEPT ![a] = [@ EXCEPT !.phase = "idle", !.fwd = out, !.res = out]]
    /\ UNCHANGED <<debug_assertions, live, id, last, cycle>>
    /\ UNCHANGED wakerVars
    /\ UNCHANGED data

\* ------------------------------------------------------------------- Waker
NoWaker == [registry |-> 0, token |-> -1]
NoObserved == [wakes |-> 0, token |-> -1]
SysOutcomes == {Ok, Other}
Event(tok) == [token |-> tok, readable |-> TRUE]

\* The record of a call on a waker: its result, the result of the signal
\* operation under it (sys), whether a thread was blocked in the bound wait,
\* and (again) whether the call is the construction of a second waker, right
\* after the drop of a waker on the same registry and token, or the first
\* wake() on such a second waker.
WakerCall(op, r, tok, res, sys, blocked, again) ==
    [op |-> op, r |-> r, tok |-> tok, res |-> res, sys |-> sys,
     blocked |-> blocked, again |-> again]
NoWakerCall == WakerCall(None, 0, -1, None, None, FALSE, FALSE)
DroppedBefore(r, tok) == wlast.op = "drop" /\ wlast.r = r /\ wlast.tok = tok

\* Registry::register_waker (debug builds): notes that the registry has a
\* waker.
RegisterWaker(h, r) == IF debug_assertions THEN [h EXCEPT ![r] = TRUE] ELSE h

\* sys::Waker::new(selector, token): allocates the wake signal and registers
\* it with the selector under token, for readable readiness.
SysWakerNew(s, r, tok) == SelectorRegister(s, r, WakerFd, tok, {READABLE})

\* sys::Waker::wake: one more write to the signal.
SysWakerWake(n) == n + 1

\* Waker::new, were it to hand the selector a fixed token
WakerNewFixedToken(r, tok, out) ==
    /\ waker = NoWaker
    /\ has_waker' = RegisterWaker(has_waker, r)
    /\ IF out = Ok
          THEN /\ sel' = SysWakerNew(sel, r, 0)
               /\ waker' = [registry |-> r, token |-> tok]
          ELSE UNCHANGED <<sel, waker>>
    /\ wlast' = WakerCall("new", r, tok, out, out, FALSE, DroppedBefore(r, tok))
    /\ UNCHANGED <<debug_assertions, live, id, last, cycle>>
    /\ UNCHANGED <<pending, polling, events, wakes, observed>>
    /\ UNCHANGED <<data, disarmed, pc>>

\* Waker::new, were it to refuse a registry and token that a dropped waker
\* had used
WakerNewOnce(r, tok, out) ==
    /\ waker = NoWaker
    /\ has_waker' = RegisterWaker(has_waker, r)
    /\ IF out = Ok /\ ~DroppedBefore(r, tok)
          THEN /\ sel' = SysWakerNew(sel, r, tok)
               /\ waker' = [registry |-> r, token |-> tok]
          ELSE UNCHANGED <<sel, waker>>
    /\ wlast' = WakerCall("new", r, tok,
                          IF DroppedBefore(r, tok) THEN Other ELSE out,
                          out, FALSE, DroppedBefore(r, tok))
    /\ UNCHANGED <<debug_assertions, live, id, last, cycle>>
    /\ UNCHANGED <<pending, polling, events, wakes, observed>>
    /\ UNCHANGED <<data, disarmed, pc>>

\* Waker::new(registry, token): registry.register_waker();
\* sys::Waker::new(registry.selector(), token).map(|inner| Waker { inner }).
\* `out` is the result of the allocation.
WakerNew(r, tok, out) ==
    /\ waker = NoWaker
    /\ has_waker' = RegisterWaker(has_waker, r)
    /\ IF out = Ok
          THEN /\ sel' = SysWakerNew(sel, r, tok)
               /\ waker' = [registry |-> r, token |-> tok]
          ELSE UNCHANGED <<sel, waker>>
    /\ wlast' = WakerCall("new", r, tok, out, out, FALSE, DroppedBefore(r, tok))
    /\ UNCHANGED <<debug_assertions, live, id, last, cycle>>
    /\ UNCHANGED <<pending, polling, events, wakes, observed>>
    /\ UNCHANGED <<data, disarmed, pc>>

\* wake, were it to report success without writing to the signal
WakeNoSignal(out) ==
    /\ waker # NoWaker
    /\ wakes < MaxWakes
    /\ wakes' = IF out = Ok THEN wakes + 1 ELSE wakes
    /\ wlast' = WakerCall("wake", waker.registry, waker.token, out, out,
                          polling[waker.registry],
                          wlast.op = "new" /\ wlast.again)
    /\ UNCHANGED <<debug_assertions, live, id, sel, last, cycle>>
    /\ UNCHANGED <<waker, has_waker, pending, polling, events, observed>>
    /\ UNCHANGED <<data, disarmed, pc>>

\* wake, were it to report success whatever the write returned
WakeSwallow(out) ==
    /\ waker # NoWaker
    /\ wakes < MaxWakes
    /\ pending' = IF out = Ok THEN SysWakerWake(pending) ELSE pending
    /\ wakes' = IF out = Ok THEN wakes + 1 ELSE wakes
    /\ wlast' = WakerCall("wake", waker.registry, waker.token, Ok, out,
                          polling[waker.registry],
                          wlast.op = "new" /\ wlast.again)
    /\ UNCHANGED <<debug_assertions, live, id, sel, last, cycle>>
    /\ UNCHANGED <<waker, has_waker, polling, events, observed>>
    /\ UNCHANGED <<data, disarmed, pc>>

\* Waker::wake: self.inner.wake().  `out` is the result of the write.
Wake(out) ==
    /\ waker # NoWaker
    /\ wakes < MaxWakes
    /\ pending' = IF out = Ok THEN SysWakerWake(pending) ELSE pending
    /\ wakes' = IF out = Ok THEN wakes + 1 ELSE wakes
    /\ wlast' = WakerCall("wake", waker.registry, waker.token, out, out,
                          polling[waker.registry],
                          wlast.op = "new" /\ wlast.again)
    /\ UNCHANGED <<debug_assertions, live, id, sel, last, cycle>>
    /\ UNCHANGED <<waker, has_waker, polling, events, observed>>
    /\ UNCHANGED <<data, disarmed, pc>>

\* drop(Waker): the signal is closed, which takes it out of the selector.
WakerDrop ==
    /\ waker # NoWaker
    /\ sel' = SelectorDeregister(sel, waker.registry, WakerFd)
    /\ waker' = NoWaker
    /\ pending' = 0
    /\ wakes' = 0
    /\ wlast' = WakerCall("drop", waker.registry, waker.token, Ok, None, FALSE, FALSE)
    /\ UNCHANGED <<debug_assertions, live, id, last, cycle>>
    /\ UNCHANGED <<has_waker, polling, events, observed>>
    /\ UNCHANGED <<data, disarmed, pc>>

\* ------------------------------------------------------- the polling wait
\* What registry r's selector has to report: the wake signal, when it is
\* registered with r and has been written to, and every handle registered
\* with r for readable readiness that has unread data and is armed.  A
\* reported handle is taken as disarmed until a WouldBlock re-arms it, the
\* least any selector reports.
WakerReady(r) == Holds(sel, r, WakerFd) /\ pending > 0
SourceReady(r, a) ==
    /\ Holds(sel, r, RawFd(a))
    /\ READABLE \in sel[r][RawFd(a)].interests
    /\ a \in data
    /\ <<r, RawFd(a)>> \notin disarmed
SourceEvents(r, a) ==
    IF SourceReady(r, a) THEN <<Event(sel[r][RawFd(a)].token)>> ELSE <<>>
\* the record of an arrival of data, once r's wait has reported it
ArrivalReported(l, r) ==
    IF l.op = "arrive" /\ SourceReady(r, l.a) THEN [l EXCEPT !.res = Ok] ELSE l
ReadyEvents(r) ==
    (IF WakerReady(r) THEN <<Event(sel[r][WakerFd].token)>> ELSE <<>>)
        \o SourceEvents(r, "a1") \o SourceEvents(r, "a2")

\* Poll::poll(&mut events, None) is entered: the thread blocks.
Poll(r) ==
    /\ ~polling[r]
    /\ polling' = [polling EXCEPT ![r] = TRUE]
    /\ events' = [events EXCEPT ![r] = <<>>]
    /\ observed' = [observed EXCEPT ![r] = NoObserved]
    /\ UNCHANGED <<debug_assertions, live, id, sel, last, cycle>>
    /\ UNCHANGED <<waker, has_waker, pending, wlast, wakes>>
    /\ UNCHANGED <<data, disarmed, pc>>

\* The wait returns with the events that are ready, draining the signal.
PollReturn(r) ==
    /\ polling[r]
    /\ ReadyEvents(r) # <<>>
    /\ polling' = [polling EXCEPT ![r] = FALSE]
    /\ events' = [events EXCEPT ![r] = ReadyEvents(r)]
    /\ pending' = IF WakerReady(r) THEN 0 ELSE pending
    /\ wakes' = IF WakerReady(r) THEN 0 ELSE wakes
    /\ observed' = [q \in Registries |->
                        IF q = r /\ WakerReady(r)
                            THEN [wakes |-> wakes, token |-> waker.token]
                            ELSE NoObserved]
    /\ disarmed' = disarmed \cup {<<r, RawFd(a)>> : a \in {b \in Adapters : SourceReady(r, b)}}
    /\ last' = ArrivalReported(last, r)
    /\ UNCHANGED <<debug_assertions, live, id, sel, cycle>>
    /\ UNCHANGED <<waker, has_waker, wlast>>
    /\ UNCHANGED <<data, pc>>

\* ------------------------------------------------------------------- Spec
\* the registries whose selector holds adapter a's raw handle
RegisteredIn(a) == {r \in Registries : sel[r][RawFd(a)] # NoReg}

SourceInit ==
    /\ debug_assertions \in BOOLEAN
    /\ live = {"a1"}
    /\ id = [a \in Adapters |-> SelectorIdNew]
    /\ sel = [r \in Registries |-> [fd \in Fds |-> NoReg]]
    /\ last = NoCall
    /\ cycle = [a \in Adapters |-> NoCycle]

WakerInit ==
    /\ waker = NoWaker
    /\ has_waker = [r \in Registries |-> FALSE]
    /\ pending = 0
    /\ polling = [r \in Registries |-> FALSE]
    /\ events = [r \in Registries |-> <<>>]
    /\ wlast = NoWakerCall
    /\ wakes = 0
    /\ observed = [r \in Registries |-> NoObserved]

IoInit ==
    /\ data = {}
    /\ disarmed = {}

ConcInit == pc = [a \in Adapters |-> NoThread]

Init == SourceInit /\ WakerInit /\ IoInit /\ ConcInit

Next ==
    \/ \E a \in Adapters, r \in Registries, out \in SelectorOutcomes :
          Register(a, r, out)
    \/ \E a \in Adapters, r \in Registries, out \in SelectorOutcomes :
          Reregister(a, r, out)
    \/ \E a \in Adapters, r \in Registries, out \in SelectorOutcomes :
          Deregister(a, r, out)
    \/ \E a \in Adapters, fres \in OpOutcomes : DoIo(a, fres)
    \/ \E a \in Adapters : IntoInner(a)
    \/ \E a \in Adapters : IoSourceDrop(a)

Spec == Init /\ [][Next]_vars

WakerNext ==
    \/ \E r \in Registries, tok \in Tokens, out \in SysOutcomes : WakerNew(r, tok, out)
    \/ \E out \in SysOutcomes : Wake(out)
    \/ WakerDrop
    \/ \E r \in Registries : Poll(r)
    \/ \E r \in Registries : PollReturn(r)

WakerSpec == Init /\ [][WakerNext]_vars

\* A blocked wait returns once its selector has an event to report.
WakerLive == WakerSpec /\ \A r \in Registries : WF_vars(PollReturn(r))

\* The calls on an adapter when every forwarded call succeeds.
OkNext ==
    \/ \E a \in Adapters, r \in Registries : Register(a, r, Ok)
    \/ \E a \in Adapters, r \in Registries : Reregister(a, r, Ok)
    \/ \E a \in Adapters, r \in Registries : Deregister(a, r, Ok)

OkSpec == Init /\ [][OkNext]_vars

\* Threads, one per adapter, call register/reregister/deregister on their
\* adapters against one registry, the steps of their calls interleaved.
SameRegistry(r) == \A b \in Adapters : pc[b].r \in {0, r}
ConcNext ==
    \/ \E a \in Adapters : IoSourceNew(a)
    \/ \E a \in Adapters, op \in SourceOps, r \in Registries :
          SameRegistry(r) /\ ConcBegin(a, op, r)
    \/ \E a \in Adapters, out \in SelectorOutcomes, tok \in Tokens :
          ConcForward(a, out, tok, {READABLE})

ConcSpec == Init /\ [][ConcNext]_vars

\* The adapter is registered once, read through do_io, and its registry
\* is polled, while data arrives.
IoNext ==
    \/ \E a \in Adapters, r \in Registries, out \in SelectorOutcomes :
          RegisteredIn(a) = {} /\ Register(a, r, out)
    \/ \E a \in Adapters : \E fres \in ReadOutcomes(a) : DoIo(a, fres)
    \/ \E a \in Adapters : DataArrives(a)
    \/ \E r \in Registries : (\E a \in live : r \in RegisteredIn(a)) /\ Poll(r)
    \/ \E r \in Registries : PollReturn(r)

IoSpec == Init /\ [][IoNext]_vars

IoLive == IoSpec /\ \A r \in Registries : WF_vars(PollReturn(r))

\* ================================================================ claims

\* C1: with the safety checks enabled, after any calls the adapter's raw
\* handle is registered in the selector of at most one registry.
\* (The claim as stated; register(R1), deregister(R2), register(R2) breaks it.)
C1_AtMostOneRegistry ==
    debug_assertions => \A a \in live : Cardinality(RegisteredIn(a)) <= 1

\* C2: register(R2) on an adapter associated with another registry R1 fails
\* with AlreadyExists and the association is still R1 afterwards.
\* (The claim as stated; associate swaps R2 in before it looks at the old id.)
C2_RegisterOtherKeepsAssociation ==
    (/\ debug_assertions
     /\ last.op = "register"
     /\ last.pre \notin {UNASSOCIATED, last.r})
    => (last.res = AlreadyExists /\ id[last.a] = last.pre)

\* C3: deregister(R) on an adapter that is unassociated or associated with
\* another registry fails with NotFound and leaves the association as it was.
\* (The claim as stated; remove_association clears the id before comparing.)
C3_DeregisterMismatchNoChange ==
    (/\ debug_assertions
     /\ last.op = "deregister"
     /\ last.pre # last.r)
    => (last.res = NotFound /\ id[last.a] = last.pre)

\* C4: the association changes unassociated -> associated(R) only by a
\* register on R that returns success, associated(R) -> unassociated only by
\* a deregister on R that returns success; when the check passes and the
\* forwarded call fails the association is unchanged.
\* (The claim as stated; the id is written before the call is forwarded.)
C4_TransitionsOnlyOnSuccess ==
    (debug_assertions /\ last.op \in SourceOps /\ last.a \in live)
    => /\ id[last.a] # last.pre =>
            \/ /\ last.pre = UNASSOCIATED
               /\ last.op = "register" /\ last.r = id[last.a] /\ last.res = Ok
            \/ /\ id[last.a] = UNASSOCIATED
               /\ last.op = "deregister" /\ last.r = last.pre /\ last.res = Ok
       /\ (last.chk = Ok /\ last.res # Ok) => id[last.a] = last.pre

\* C5 as stated: after repetitions of a successful register(R) followed by
\* deregister(R) the adapter is unassociated and the next register(R)
\* succeeds.
C5_NextRegisterSucceeds ==
    debug_assertions =>
        /\ \A a \in live : cycle[a].phase = "idle" => id[a] = UNASSOCIATED
        /\ (last.op = "register" /\ last.after) => last.res = Ok

\* C5 (amended): after repetitions of a successful register(R) followed by
\* deregister(R) the adapter is unassociated, and the next register(R)
\* passes the association check, is forwarded to R's selector and returns
\* the selector's result.
C5_NextRegisterForwarded ==
    debug_assertions =>
        /\ \A a \in live : cycle[a].phase = "idle" => id[a] = UNASSOCIATED
        /\ (last.op = "register" /\ last.after) =>
              (last.chk = Ok /\ last.fwd \in SelectorOutcomes /\ last.res = last.fwd)

\* a register(R) made after at least one whole repetition on R was accepted
C5_Witness ==
    /\ debug_assertions
    /\ last.op = "register" /\ last.after /\ last.res = Ok
    /\ cycle[last.a] = [phase |-> "registered", r |-> last.r]
    /\ \E a \in live : id[a] = last.r /\ last.r \in RegisteredIn(a)
    /\ last.pre = UNASSOCIATED

\* C6: reregister(R) fails with NotFound when unassociated, with
\* AlreadyExists when associated with another registry, and otherwise
\* forwards to R; the association state is the same after the call.
C6_ReregisterKeepsAssociation ==
    (debug_assertions /\ last.op = "reregister")
    => /\ id[last.a] = last.pre
       /\ last.pre = UNASSOCIATED =>
              (last.res = NotFound /\ last.fwd = None)
       /\ last.pre \notin {UNASSOCIATED, last.r} =>
              (last.res = AlreadyExists /\ last.fwd = None)
       /\ last.pre = last.r =>
              (last.fwd \in SelectorOutcomes /\ last.res = last.fwd)

\* a reregister against a registry other than the associated one was refused
C6_Witness ==
    /\ debug_assertions
    /\ last.op = "reregister"
    /\ last.pre \notin {UNASSOCIATED, last.r}
    /\ last.res = AlreadyExists
    /\ id[last.a] = last.pre

\* C7: with the safety checks enabled, register on an adapter that is not
\* unassociated returns AlreadyExists, and a call whose association check
\* fails forwards nothing: the selectors' registrations are unchanged.
C7_FailedCheckForwardsNothing ==
    [][(debug_assertions /\ last'.op \in SourceOps)
       => /\ (last'.op = "register" /\ last'.pre # UNASSOCIATED)
                => last'.res = AlreadyExists
          /\ last'.chk # Ok => (last'.fwd = None /\ sel' = sel)]_vars

\* a second register on the registry the adapter is registered with was
\* refused
C7_Witness ==
    /\ debug_assertions
    /\ last.op = "register" /\ last.pre = last.r
    /\ last.chk = AlreadyExists /\ last.res = AlreadyExists /\ last.fwd = None
    /\ last.r \in RegisteredIn(last.a)

\* C8: do_io applies the operation once, returns its result unchanged and
\* leaves the association state unchanged.
C8_DoIoPassesResultThrough ==
    last.op = "do_io"
    => (last.applied = 1 /\ last.res = last.fres /\ id[last.a] = last.pre)

\* a do_io whose operation reported WouldBlock, on a registered adapter
C8_Witness ==
    /\ last.op = "do_io" /\ last.fres = WouldBlock /\ last.res = WouldBlock
    /\ last.pre # UNASSOCIATED

\* the live waker is bound to registry r
WakerOn(r) == waker # NoWaker /\ waker.registry = r

\* C9: when wake() is called once from another thread than the one blocked
\* in the wait on the waker's registry, that wait returns with exactly one
\* event, which carries the token given to Waker::new and is readable.
C9_OneWakeOneEvent ==
    \A r \in Registries :
        /\ observed[r].wakes = 1
              => (/\ ~polling[r]
                  /\ events[r] = <<[token |-> observed[r].token, readable |-> TRUE]>>)
        /\ (polling[r] /\ WakerOn(r) /\ wakes = 1) => ENABLED PollReturn(r)

\* a wait returned after one wake() made while its thread was blocked,
\* with the waker's (non-zero) token
C9_Witness ==
    \E r \in Registries :
        /\ WakerOn(r) /\ waker.token # 0
        /\ wlast.op = "wake" /\ wlast.res = Ok /\ wlast.blocked
        /\ observed[r] = [wakes |-> 1, token |-> waker.token]
        /\ Len(events[r]) = 1 /\ events[r][1].token = waker.token
        /\ events[r][1].readable

\* the last wait on r reported the live waker's event
Delivered(r) ==
    /\ wakes = 0
    /\ Len(events[r]) >= 1
    /\ \E i \in 1..Len(events[r]) : events[r][i] = Event(waker.token)

\* C10: a wake signal is not lost: after N >= 1 wake() calls on a live
\* waker, the wait in progress on the bound registry (or a later one, once
\* entered) returns a readable event with the waker's token, unless the waker
\* is dropped first; the calls may coalesce into one event.
C10_WakeNotLost ==
    \A r \in Registries :
        (WakerOn(r) /\ wakes >= 1 /\ polling[r])
            ~> (waker = NoWaker \/ (WakerOn(r) /\ Delivered(r)))

\* two wake() calls were reported to a wait as one event
C10_Witness ==
    \E r \in Registries :
        /\ WakerOn(r) /\ Delivered(r)
        /\ observed[r].wakes = 2
        /\ Len(events[r]) = 1

\* C11 (as stated): after a waker bound to R and T is dropped, constructing
\* a second waker on R and T succeeds, and wake() on it succeeds.
\* (The signal allocation or the write can fail, and the failure is returned.)
C11_SecondWakerSucceeds ==
    wlast.again => wlast.res = Ok

\* C11: after a waker bound to R and T is dropped, constructing a second
\* waker on R and T returns exactly the result of the signal allocation and,
\* when that succeeded, leaves a waker bound to R and T whose fresh signal is
\* registered under T and can be woken; the first wake() on it returns
\* exactly the result of the write and, when that succeeded, R's wait has
\* exactly one readable event with token T to report until it has returned.
C11_SecondWakerWorks ==
    /\ (wlast.op = "new" /\ wlast.again)
          => /\ wlast.res = wlast.sys
             /\ wlast.res = Ok
                   => /\ waker = [registry |-> wlast.r, token |-> wlast.tok]
                      /\ sel[wlast.r][WakerFd] = Registration(wlast.tok, {READABLE})
                      /\ pending = 0
                      /\ ENABLED Wake(Ok)
    /\ (wlast.op = "wake" /\ wlast.again)
          => /\ wlast.res = wlast.sys
             /\ WakerOn(wlast.r) /\ waker.token = wlast.tok
             /\ (wlast.res = Ok /\ wakes >= 1)
                   => /\ ReadyEvents(wlast.r) = <<Event(wlast.tok)>>
                      /\ polling[wlast.r] => ENABLED PollReturn(wlast.r)
             /\ (wlast.res = Ok /\ wakes = 0)
                   => polling[wlast.r] \/ events[wlast.r] = <<Event(wlast.tok)>>

\* a wait on R returned the event of a wake() on a second waker, made on the
\* registry and token of a dropped one while the thread was blocked
C11_Witness ==
    /\ wlast.op = "wake" /\ wlast.again /\ wlast.res = Ok /\ wlast.blocked
    /\ wlast.tok # 0
    /\ wakes = 0
    /\ ~polling[wlast.r]
    /\ events[wlast.r] = <<Event(wlast.tok)>>

\* C15: Waker::new returns an error exactly when the allocation of the wake
\* signal fails, and then no waker exists; wake() returns an error exactly
\* when the write to the signal fails; either way the result returned is the
\* result of the underlying operation, unchanged.
C15_WakerErrorsPassThrough ==
    /\ wlast.op = "new"
          => /\ wlast.res = wlast.sys
             /\ (wlast.res # Ok) <=> (waker = NoWaker)
    /\ wlast.op = "wake"
          => /\ wlast.res = wlast.sys
             /\ wlast.res # Ok => (wlast.sys = Other /\ waker # NoWaker)

\* a wake() whose write failed returned that error, with nothing signalled
C15_Witness ==
    /\ wlast.op = "wake" /\ wlast.sys = Other /\ wlast.res = Other
    /\ pending = 0 /\ wakes = 0

\* C17: into_inner (and drop) performs no deregistration: the selectors hold
\* afterwards the registrations they held before; a registration of the
\* adapter's handle is removed only by a deregister call on the live adapter
\* that was forwarded and succeeded.
C17_IntoInnerKeepsRegistration ==
    [][/\ live' # live
             => /\ sel' = sel
                /\ last'.op \in {"into_inner", "drop"}
                /\ live' = live \ {last'.a}
       /\ \A a \in Adapters, r \in Registries :
             (Holds(sel, r, RawFd(a)) /\ ~Holds(sel', r, RawFd(a)))
                => /\ a \in live /\ a \in live'
                   /\ last'.op = "deregister" /\ last'.a = a /\ last'.r = r
                   /\ last'.fwd = Ok /\ last'.res = Ok]_vars

\* into_inner was called on an adapter that was still registered: the
\* selector holds the stale registration
C17_Witness ==
    /\ last.op = "into_inner"
    /\ last.a \notin live
    /\ last.pre # UNASSOCIATED
    /\ RegisteredIn(last.a) = {last.pre}

\* C12: with the adapter registered for readable readiness under token T in
\* registry R, once a read through do_io has returned WouldBlock and data
\* then arrives, the wait on R returns a readable event with token T, unless
\* the data is read first: the handle is not left un-armed.
C12_WouldBlockKeepsArmed ==
    \A a \in Adapters, r \in Registries :
        (/\ last.op = "arrive" /\ last.a = a /\ last.after /\ last.res = None
         /\ Holds(sel, r, RawFd(a)) /\ READABLE \in sel[r][RawFd(a)].interests
         /\ polling[r])
            ~> (\/ a \notin data
                \/ /\ ~polling[r]
                   /\ \E i \in 1..Len(events[r]) :
                         events[r][i] = Event(sel[r][RawFd(a)].token))

\* after an event was reported and the data read until WouldBlock, data
\* arrived again and the wait reported token T again
C12_Witness ==
    \E r \in Registries :
        /\ last.op = "arrive" /\ last.a = "a1" /\ last.after /\ last.res = Ok
        /\ Holds(sel, r, RawFd("a1")) /\ sel[r][RawFd("a1")].token # 0
        /\ ~polling[r]
        /\ events[r] = <<Event(sel[r][RawFd("a1")].token)>>
        /\ <<r, RawFd("a1")>> \in disarmed
        /\ "a1" \in data

\* C16: with the safety checks enabled and forwarded calls that never fail,
\* in every reachable state, after rejected calls too, the adapter is
\* associated with registry R exactly when R's selector holds its handle,
\* and unassociated exactly when no selector holds it.
\* (The claim as stated; register(R1) then a rejected register(R2) breaks it.)
C16_AssociationMatchesSelector ==
    debug_assertions
        => \A a \in live :
              RegisteredIn(a) = IF id[a] = UNASSOCIATED THEN {} ELSE {id[a]}

\* What a call does when it goes to registry r's selector unchecked: the
\* reply `out` is one the selector can give, and t is the selector state
\* that the reply leaves.
Unchecked(op, s, a, r, out, t) ==
    CASE op = "register" ->
            /\ out \in RegisterReplies(s, r, RawFd(a))
            /\ IF out = Ok
                  THEN \E tok \in Tokens, int \in Interests :
                          t = SelectorRegister(s, r, RawFd(a), tok, int)
                  ELSE t = s
      [] op = "reregister" ->
            /\ out \in ModifyReplies(s, r, RawFd(a))
            /\ IF out = Ok
                  THEN \E tok \in Tokens, int \in Interests :
                          t = SelectorReregister(s, r, RawFd(a), tok, int)
                  ELSE t = s
      [] op = "deregister" ->
            /\ out \in ModifyReplies(s, r, RawFd(a))
            /\ t = IF out = Ok THEN SelectorDeregister(s, r, RawFd(a)) ELSE s

\* C13: whenever the association check of a call passes, the checked
\* adapter does what the unchecked one does: the same call is forwarded to
\* the registry, with the same effect on its selector, and the result
\* returned is exactly the registry's.
C13_CheckedMatchesUnchecked ==
    [][(last'.op \in SourceOps /\ last'.chk \in {Ok, None})
       => /\ last'.res = last'.fwd
          /\ Unchecked(last'.op, sel, last'.a, last'.r, last'.fwd, sel')
          /\ debug_assertions <=> last'.chk = Ok]_vars

\* a checked deregister passed its check, was forwarded and returned the
\* selector's error
C13_Witness ==
    /\ debug_assertions
    /\ last.op = "deregister" /\ last.chk = Ok
    /\ last.fwd = Other /\ last.res = Other
    /\ last.r \in RegisteredIn(last.a)

\* what belongs to adapter a: its association state, its thread's call and
\* what the selectors hold for its handle
Slice(a) == <<id[a], pc[a], [r \in Registries |-> sel[r][RawFd(a)]]>>

\* a completed call on adapter a ended as the call made alone on a ends:
\* with the association state and the result that follow from the state a
\* was in and from the selector's reply, and with the selector holding the
\* handle as that reply says
AsIfAlone(a) ==
    LET t == pc[a]
        c == Checked(IdStep(t.op, t.pre, t.r), t.pre) IN
    (t.phase = "idle" /\ t.op \in SourceOps)
        => /\ id[a] = c.id
           /\ t.res = IF c.res # Ok THEN c.res ELSE t.fwd
           /\ c.res # Ok <=> t.fwd = None
           /\ (t.fwd = Ok /\ t.op # "deregister") => Holds(sel, t.r, RawFd(a))
           /\ (t.fwd = Ok /\ t.op = "deregister") => ~Holds(sel, t.r, RawFd(a))

\* C14: when threads call register/reregister/deregister concurrently on
\* distinct adapters against the same registry, a step on one adapter never
\* changes what belongs to another, and each adapter's results and
\* association state are those of its calls run alone.
C14_AdaptersIndependent ==
    [][/\ \A a, b \in Adapters :
             (a # b /\ Slice(a)' # Slice(a)) => Slice(b)' = Slice(b)
       /\ \A a \in Adapters : AsIfAlone(a)']_vars

\* one thread is between the two steps of a register while the thread of
\* the other adapter has completed a deregister on the same registry
C14_Witness ==
    /\ debug_assertions
    /\ pc["a1"].phase = "forward" /\ pc["a1"].op = "register"
    /\ pc["a2"].phase = "idle" /\ pc["a2"].op = "deregister"
    /\ pc["a2"].res = Ok /\ pc["a2"].r = pc["a1"].r
    /\ id["a1"] = pc["a1"].r /\ id["a2"] = UNASSOCIATED

====
